---- MODULE Spec2Model ----
(***************************************************************************)
(* Snake-3D: the Snake state machine of src/js/Snake.js, the food          *)
(* placement of src/js/Food.js and the game loop of src/js/main.js.        *)
(*                                                                         *)
(* Lengths are fixed-point integers: one model unit is 1/Scale of a world  *)
(* unit, so speed 1.5 is 150, the segment spacing 1.2 is 120 and the       *)
(* collision radius 0.8 is 80.  A THREE.Vector3 is a triple <<x, y, z>>.   *)
(* Direction vectors use the same scale: the unit vector +X is             *)
(* <<100, 0, 0>>.  body is 1-based here: body[1] is the head (index 0 of   *)
(* the source), body[i+1] is index i of the source.  Times are integers   *)
(* too: one time unit is a microsecond, so the base interval 0.1 s is      *)
(* 100000.                                                                 *)
(***************************************************************************)
EXTENDS Integers, Sequences, FiniteSets, TLC

VARIABLES
    body,           \* this.body: positions of the segment meshes, head first
    direction,      \* this.direction
    nextDirection,  \* this.nextDirection (the pending direction)
    growPending,    \* this.growPending
    isInitialized,  \* this.isInitialized
    headMaterial,   \* this.headMaterial: "null", "textured" or "fallback"
    bodyMaterial,   \* this.bodyMaterial: "null", "textured" or "fallback"
    loadState,      \* the textureLoader.load request: "pending" or "settled"
    ticks,          \* number of update() calls that moved the snake
    lastCall,       \* the most recent call or event and its argument; for
                    \* a frame, the calls its simulation step made, in order
    score,          \* Game.score
    gameOver,       \* Game.gameOver
    paused,         \* Game.paused
    moveDelay,      \* Game.moveDelay
    moveTimer,      \* Game.moveTimer
    clock,          \* Game.clock: running flag, time since the last getDelta()
    foodPos,        \* Food.position
    foodLast,       \* Food.lastSpawnPosition: <<>> is null, <<p>> is p
    respawnLog,     \* what the last respawn() logged and did
    staleLoads,     \* pending texture loads of snakes startGame() discarded
    strayHeads      \* head meshes in the scene owned by discarded snakes

snakeVars == <<body, direction, nextDirection, growPending, isInitialized,
               headMaterial, bodyMaterial, loadState, ticks>>

gameVars == <<score, gameOver, paused, moveDelay, moveTimer, clock>>

foodVars == <<foodPos, foodLast, respawnLog>>

sceneVars == <<staleLoads, strayHeads>>

vars == <<body, direction, nextDirection, growPending, isInitialized,
          headMaterial, bodyMaterial, loadState, ticks, lastCall,
          score, gameOver, paused, moveDelay, moveTimer, clock,
          foodPos, foodLast, respawnLog, staleLoads, strayHeads>>

----------------------------------------------------------------------------
(* Bounds of the exploration *)

\* update() calls explored after initialization
MaxTicks == 4
\* segments (head included) the snake may grow to
MaxLen == 5
\* calls of grow() that may be outstanding at once
MaxGrow == 1
\* update() calls explored when the requests are arbitrary vectors
MaxApiTicks == 3
\* simulation steps that move the snake explored in the game loop
MaxGameTicks == 4
\* frames whose time may pile up in the clock while no getDelta() is made
MaxIdleFrames == 1
\* foods eaten in a row explored in the food and speed specification
MaxFoods == 26
\* snakes discarded by startGame() while their texture load was pending
MaxStale == 1

----------------------------------------------------------------------------
(* Program constants, in model units *)

Scale == 10 * 10

\* this.speed = 1.5
Speed == 150
\* the fixed spacing 1.2 of addBodyPart
Spacing == 120
\* createBodyParts(3)
InitialBodyParts == 3
\* checkSelfCollision: for (let i = 3; ...)
SkipCount == 3
\* checkSelfCollision: distanceTo(...) < 0.8
CollisionRadius == 80
\* changeDirection: dotProduct < -0.8, as a magnitude
ReversalThreshold == 80

\* this.head.position.set(0, 5, 0)
SpawnPoint == <<0, 5 * Scale, 0>>
\* new THREE.Vector3(1, 0, 0)
InitialDirection == <<Scale, 0, 0>>

----------------------------------------------------------------------------
(* THREE.Vector3 arithmetic as the source uses it *)

VAdd(a, b) == <<a[1] + b[1], a[2] + b[2], a[3] + b[3]>>
VSub(a, b) == <<a[1] - b[1], a[2] - b[2], a[3] - b[3]>>
VNeg(a) == <<-a[1], -a[2], -a[3]>>

\* v.multiplyScalar(k), k a fixed-point scalar
MultiplyScalar(v, k) ==
    <<(v[1] * k) \div Scale, (v[2] * k) \div Scale, (v[3] * k) \div Scale>>

\* a.dot(b), in units of 1/Scale^2
Dot(a, b) == a[1] * b[1] + a[2] * b[2] + a[3] * b[3]

LengthSq(v) == Dot(v, v)

RECURSIVE SqrtSearch(_, _, _)
SqrtSearch(n, lo, hi) ==
    IF lo >= hi THEN lo
    ELSE LET mid == (lo + hi + 1) \div 2
         IN IF mid * mid <= n THEN SqrtSearch(n, mid, hi)
                              ELSE SqrtSearch(n, lo, mid - 1)

\* Math.sqrt on the lengths that occur (all are exact squares); the search
\* interval is capped so that mid * mid stays a 32-bit integer
Sqrt(n) == SqrtSearch(n, 0, IF n < 2^15 THEN n ELSE 2^15)

\* v.length()
Length(v) == Sqrt(LengthSq(v))

\* v.normalize(): divideScalar(length || 1)
Normalize(v) ==
    LET len == IF Length(v) = 0 THEN Scale ELSE Length(v)
    IN <<(v[1] * Scale) \div len, (v[2] * Scale) \div len, (v[3] * Scale) \div len>>

\* a.distanceTo(b) squared
DistSq(a, b) == LengthSq(VSub(a, b))

----------------------------------------------------------------------------
(* The direction requests *)

\* the vectors the key and button handlers of main.js pass to changeDirection
KeyRequests ==
    { <<0, 0, -Scale>>, <<0, 0, Scale>>, <<-Scale, 0, 0>>,
      <<Scale, 0, 0>>, <<0, -Scale, 0>>, <<0, Scale, 0>> }

\* the 6 axis-aligned unit vectors
AxisDirections ==
    { <<Scale, 0, 0>>, <<-Scale, 0, 0>>, <<0, Scale, 0>>,
      <<0, -Scale, 0>>, <<0, 0, Scale>>, <<0, 0, -Scale>> }

\* other Vector3 arguments a caller of the exported class can pass:
\* (3, 4, 0), which normalizes to (0.6, 0.8, 0), and (0, 0, 2)
OtherRequests == { <<3 * Scale, 4 * Scale, 0>>, <<0, 0, 2 * Scale>> }

NoArg == <<0, 0, 0>>

----------------------------------------------------------------------------
(* Game and food constants, in model units *)

\* Game: this.gridSize = 30
GridSize == 3000
\* Food: this.gridSize = 20, the default of respawn(gridSize = 20)
DefaultGridSize == 2000
\* Game: this.baseSpeed = 0.1 (and the initial this.moveDelay = 0.1)
BaseSpeed == 100000
\* checkFoodCollision: Math.max(0.03, ...)
MinMoveDelay == 30000
\* checkFoodCollision: this.moveDelay * 0.95, in percent
SpeedUpPercent == 95
\* checkFoodCollision: this.score += 10
ScoreStep == 10
\* checkFoodCollision: headPos.distanceTo(foodPos) < 1.5
EatRadius == 150
\* checkWallCollision: const margin = 0.6
WallMargin == 60
\* Food.respawn: const margin = 3 (and minY = 3, maxY = gridSize - 3)
FoodMargin == 300
\* Food.respawn: const maxAttempts = 10
MaxAttempts == 10
\* Food.isTooCloseToLastPosition: const minDistance = 4
MinDistance == 400
\* Food.generateCenterPosition: Math.min(10, ...)
CenterCap == 1000
\* Food.generateCornerPosition: const offset = 1.5
CornerOffset == 150
\* Food.generateEdgePosition: the inset 1.5 from a face
EdgeInset == 150
\* Food.generateEdgePosition: the inset 2 of the height tiers
TierInset == 200
\* Food.generateFallbackPosition: (Math.random() - 0.5) * 4
FallbackJitter == 400

----------------------------------------------------------------------------
(* Food: placement *)

\* values of Math.random() the placement is explored with, in hundredths:
\* 0 (the closed end of the range) and 0.5
Rands == {0, 50}

\* lo + Math.random() * (hi - lo)
Lerp(lo, hi, r) == lo + (r * (hi - lo)) \div 100

\* (Math.random() - 0.5) * width
Jitter(width, r) == ((r - 50) * width) \div 100

\* Food.respawn: minX, maxX, minY, maxY, minZ, maxZ
SpawnBounds(gridSize) ==
    [minX |-> -(gridSize \div 2) + FoodMargin,
     maxX |-> (gridSize \div 2) - FoodMargin,
     minY |-> FoodMargin,
     maxY |-> gridSize - FoodMargin,
     minZ |-> -(gridSize \div 2) + FoodMargin,
     maxZ |-> (gridSize \div 2) - FoodMargin]

Min(a, b) == IF a < b THEN a ELSE b
Max(a, b) == IF a > b THEN a ELSE b

\* generateCenterPosition
generateCenterPosition(B, gridSize) ==
    LET centerSize == Min(CenterCap, gridSize \div 2)
        centerMinY == (gridSize * 3) \div 10
        centerMaxY == (gridSize * 7) \div 10
    IN { << Lerp(-(centerSize \div 2), centerSize \div 2, rx),
            Lerp(centerMinY, centerMaxY, ry),
            Lerp(-(centerSize \div 2), centerSize \div 2, rz) >> :
         rx \in Rands, ry \in Rands, rz \in Rands }

\* generateCornerPosition: the 12 corners
Corners(B) ==
    { <<x, y, z>> :
        x \in {B.minX, B.maxX},
        y \in {B.minY + Scale, B.maxY - Scale, (B.minY + B.maxY) \div 2},
        z \in {B.minZ, B.maxZ} }

\* generateCornerPosition
generateCornerPosition(B) ==
    { << c[1] + Jitter(CornerOffset, rx),
         c[2] + Jitter(CornerOffset, ry),
         c[3] + Jitter(CornerOffset, rz) >> :
      c \in Corners(B), rx \in Rands, ry \in Rands, rz \in Rands }

\* generateEdgePosition: heightTiers
HeightTiers(B) ==
    {B.minY + TierInset, (B.minY + B.maxY) \div 2, B.maxY - TierInset}

\* generateEdgePosition: the 6 cases of the switch
generateEdgePosition(B) ==
    LET X == { Lerp(B.minX, B.maxX, r) : r \in Rands }
        Z == { Lerp(B.minZ, B.maxZ, r) : r \in Rands }
        H == HeightTiers(B)
    IN    { <<x, B.minY + EdgeInset, z>> : x \in X, z \in Z }
     \cup { <<x, B.maxY - EdgeInset, z>> : x \in X, z \in Z }
     \cup { <<B.minX + EdgeInset, h, z>> : h \in H, z \in Z }
     \cup { <<B.maxX - EdgeInset, h, z>> : h \in H, z \in Z }
     \cup { <<x, h, B.minZ + EdgeInset>> : x \in X, h \in H }
     \cup { <<x, h, B.maxZ - EdgeInset>> : x \in X, h \in H }

\* generateRandomPosition
generateRandomPosition(B) ==
    { << Lerp(B.minX, B.maxX, rx), Lerp(B.minY, B.maxY, ry),
         Lerp(B.minZ, B.maxZ, rz) >> :
      rx \in Rands, ry \in Rands, rz \in Rands }

\* generateFallbackPosition
generateFallbackPosition(B) ==
    { << (B.minX + B.maxX) \div 2 + Jitter(FallbackJitter, rx),
         (B.minY + B.maxY) \div 2 + Jitter(FallbackJitter, ry),
         (B.minZ + B.maxZ) \div 2 + Jitter(FallbackJitter, rz) >> :
      rx \in Rands, ry \in Rands, rz \in Rands }

\* getWeightedRandomZone: 0 Center, 1 Corner, 2 Edge, 3 Random
Zones == 0..3

\* respawn: the switch over spawnZone
ZoneCandidates(zone, B, gridSize) ==
    CASE zone = 0 -> generateCenterPosition(B, gridSize)
      [] zone = 1 -> generateCornerPosition(B)
      [] zone = 2 -> generateEdgePosition(B)
      [] OTHER -> generateRandomPosition(B)

\* isTooCloseToLastPosition
isTooCloseToLastPosition(newPosition, last) ==
    IF last = << >> THEN FALSE
    ELSE DistSq(newPosition, last[1]) < MinDistance * MinDistance

\* respawn: the do-while loop entered with `attempts` candidates drawn so
\* far; the set of the ways it can end.  discardedFar tells whether the
\* candidate dropped for the fallback was not too close.
RECURSIVE respawnLoop(_, _, _, _, _)
respawnLoop(zone, cands, fallbacks, last, attempts) ==
    LET a == attempts + 1
    IN IF a >= MaxAttempts
       THEN { [pos |-> f, zone |-> zone, fallback |-> TRUE,
               discardedFar |-> ~isTooCloseToLastPosition(c, last)] :
              f \in fallbacks, c \in cands }
       ELSE { [pos |-> c, zone |-> zone, fallback |-> FALSE,
               discardedFar |-> FALSE] :
              c \in { c \in cands : ~isTooCloseToLastPosition(c, last) } }
            \cup
            IF \E c \in cands : isTooCloseToLastPosition(c, last)
            THEN respawnLoop(zone, cands, fallbacks, last, a)
            ELSE {}

\* no respawn has been logged
NoLog == [pos |-> <<0, 0, 0>>, zone |-> 0, fallback |-> FALSE,
          discardedFar |-> FALSE]

\* respawn(gridSize) on a food with the given isInitialized flag: the
\* possible results [pos, last, log]
respawn(food, initialized, gridSize) ==
    IF ~initialized THEN {food}
    ELSE LET B == SpawnBounds(gridSize)
         IN { [pos |-> o.pos, last |-> <<o.pos>>, log |-> o] :
              o \in UNION { respawnLoop(z, ZoneCandidates(z, B, gridSize),
                                        generateFallbackPosition(B),
                                        food.last, 0) : z \in Zones } }

\* Food.constructor: the fields before initializeFood()
FoodFields == [pos |-> <<0, 0, 0>>, last |-> << >>, log |-> NoLog]

\* Food.constructor + initializeFood(): respawn(this.gridSize) runs while
\* isInitialized is still false
NewFood == CHOOSE f \in respawn(FoodFields, FALSE, DefaultGridSize) : TRUE

----------------------------------------------------------------------------
(* Snake: construction *)

\* this.head is set exactly when createHead pushed the head
HasHead(b) == Len(b) >= 1

\* createHead(): returns without a head while the material is missing
createHead(b, hm) ==
    IF hm = "null" THEN b ELSE Append(b, SpawnPoint)

\* addBodyPart(): the position of the appended segment
\* (called only on a body that holds the head; on an empty body
\* lastPart is undefined and nothing is pushed)
addBodyPart(b, dir, bm) ==
    IF bm = "null" \/ Len(b) = 0 THEN b
    ELSE LET lastPart == b[Len(b)]
         IN IF Len(b) = 1
            THEN Append(b, VAdd(lastPart, MultiplyScalar(dir, -Spacing)))
            ELSE LET secondLast == b[Len(b) - 1]
                     d == Normalize(VSub(lastPart, secondLast))
                 IN Append(b, VAdd(lastPart, MultiplyScalar(d, -Spacing)))

\* createBodyParts(count)
RECURSIVE createBodyParts(_, _, _, _)
createBodyParts(b, count, dir, bm) ==
    IF count = 0 THEN b
    ELSE createBodyParts(addBodyPart(b, dir, bm), count - 1, dir, bm)

\* initializeSnake() after loadTextures() has resolved with materials hm, bm
initializeSnake(hm, bm) ==
    /\ headMaterial' = hm
    /\ bodyMaterial' = bm
    /\ body' = createBodyParts(createHead(body, hm), InitialBodyParts, direction, bm)
    /\ isInitialized' = TRUE

Init ==
    /\ body = << >>
    /\ direction = InitialDirection
    /\ nextDirection = InitialDirection
    /\ growPending = 0
    /\ isInitialized = FALSE
    /\ headMaterial = "null"
    /\ bodyMaterial = "null"
    /\ loadState = "pending"
    /\ ticks = 0
    /\ lastCall = [op |-> "new", arg |-> NoArg]
    /\ score = 0
    /\ gameOver = FALSE
    /\ paused = FALSE
    /\ moveDelay = BaseSpeed
    /\ moveTimer = 0
    /\ clock = [running |-> FALSE, elapsed |-> 0]
    /\ foodPos = NewFood.pos
    /\ foodLast = NewFood.last
    /\ respawnLog = NewFood.log
    /\ staleLoads = 0
    /\ strayHeads = 0

\* loadTextures(): the onLoad callback, then the rest of initializeSnake
TextureLoaded ==
    /\ loadState = "pending"
    /\ loadState' = "settled"
    /\ initializeSnake("textured", "textured")
    /\ lastCall' = [op |-> "onLoad", arg |-> NoArg]
    /\ UNCHANGED <<direction, nextDirection, growPending, ticks>>
    /\ UNCHANGED <<gameVars, foodVars, sceneVars>>

\* the failed load leaves the snake without materials and segments
TextureFailed_GivesUp ==
    /\ loadState = "pending"
    /\ loadState' = "settled"
    /\ lastCall' = [op |-> "onError", arg |-> NoArg]
    /\ UNCHANGED <<body, isInitialized, headMaterial, bodyMaterial>>
    /\ UNCHANGED <<direction, nextDirection, growPending, ticks>>
    /\ UNCHANGED <<gameVars, foodVars, sceneVars>>

\* loadTextures(): the onError callback, then the rest of initializeSnake
TextureFailed ==
    /\ loadState = "pending"
    /\ loadState' = "settled"
    /\ initializeSnake("fallback", "fallback")
    /\ lastCall' = [op |-> "onError", arg |-> NoArg]
    /\ UNCHANGED <<direction, nextDirection, growPending, ticks>>
    /\ UNCHANGED <<gameVars, foodVars, sceneVars>>

----------------------------------------------------------------------------
(* Snake: movement *)

\* mutant: the test also rejects every turn at a right angle
reversalRejected_NonPositive(newDirection, currentDir) ==
    Dot(newDirection, currentDir) <= 0

\* mutant: the threshold is -1.0, which a strict comparison never meets
reversalRejected_StrictMinusOne(newDirection, currentDir) ==
    Dot(newDirection, currentDir) < -(Scale * Scale)

\* mutant: the request is tested against the pending direction
reversalRejected_AgainstPending(newDirection, currentDir) ==
    Dot(newDirection, nextDirection) < -(ReversalThreshold * Scale)

\* changeDirection: the reversal test on the request as passed
reversalRejected(newDirection, currentDir) ==
    Dot(newDirection, currentDir) < -(ReversalThreshold * Scale)

\* changeDirection(newDirection): the value of nextDirection afterwards
changeDirectionResult(newDirection) ==
    IF ~isInitialized \/ ~HasHead(body) THEN nextDirection
    ELSE IF reversalRejected(newDirection, direction) THEN nextDirection
    ELSE Normalize(newDirection)

ChangeDirection(newDirection) ==
    /\ nextDirection' = changeDirectionResult(newDirection)
    /\ lastCall' = [op |-> "changeDirection", arg |-> newDirection]
    /\ UNCHANGED <<body, direction, growPending, isInitialized,
                   headMaterial, bodyMaterial, loadState, ticks>>
    /\ UNCHANGED <<gameVars, foodVars, sceneVars>>

\* mutant: no snapshot of the previous positions, each segment copies the
\* position its predecessor has already moved to
moveBody_NoSnapshot(b, dir) ==
    [i \in 1..Len(b) |-> VAdd(b[1], MultiplyScalar(dir, Speed))]

\* update(): the head moved, every other segment on the previous position
\* of the segment ahead of it
moveBody(b, dir) ==
    [i \in 1..Len(b) |->
        IF i = 1 THEN VAdd(b[1], MultiplyScalar(dir, Speed)) ELSE b[i - 1]]

\* update(): the growth step
handleGrowth(b, dir, pending, bm) ==
    IF pending > 0 THEN addBodyPart(b, dir, bm) ELSE b

\* mutant: the queue is not decremented
growPendingAfterUpdate_NoDecrement(pending) == pending

\* update(): the growth queue afterwards
growPendingAfterUpdate(pending) ==
    IF pending > 0 THEN pending - 1 ELSE pending

Update ==
    /\ lastCall' = [op |-> "update", arg |-> NoArg]
    /\ UNCHANGED <<gameVars, foodVars, sceneVars>>
    /\ IF ~isInitialized \/ ~HasHead(body)
       THEN UNCHANGED <<body, direction, nextDirection, growPending,
                        isInitialized, headMaterial, bodyMaterial,
                        loadState, ticks>>
       ELSE /\ ticks < MaxTicks
            /\ direction' = nextDirection
            /\ body' = handleGrowth(moveBody(body, nextDirection), nextDirection,
                                    growPending, bodyMaterial)
            /\ growPending' = growPendingAfterUpdate(growPending)
            /\ ticks' = ticks + 1
            /\ UNCHANGED <<nextDirection, isInitialized, headMaterial,
                           bodyMaterial, loadState>>

\* a food is worth two segments
growResult_TwoSegments(pending) ==
    IF ~isInitialized THEN pending ELSE pending + 2

\* grow(): the growth queue afterwards
growResult(pending) ==
    IF ~isInitialized THEN pending ELSE pending + 1

Grow ==
    /\ isInitialized => (growPending < MaxGrow /\ Len(body) + growPending < MaxLen)
    /\ growPending' = growResult(growPending)
    /\ lastCall' = [op |-> "grow", arg |-> NoArg]
    /\ UNCHANGED <<body, direction, nextDirection, isInitialized,
                   headMaterial, bodyMaterial, loadState, ticks>>
    /\ UNCHANGED <<gameVars, foodVars, sceneVars>>

\* checkSelfCollision(): the loop over the segments from index SkipCount on
RECURSIVE selfCollisionFrom(_, _)
selfCollisionFrom(b, i) ==
    IF i > Len(b) THEN FALSE
    ELSE IF DistSq(b[1], b[i]) < CollisionRadius * CollisionRadius THEN TRUE
    ELSE selfCollisionFrom(b, i + 1)

\* mutant: a segment one step of the head away counts as hit
checkSelfCollision_OneStepAway ==
    IF ~isInitialized \/ ~HasHead(body) THEN FALSE
    ELSE \E i \in (SkipCount + 1)..Len(body) :
            DistSq(body[1], body[i]) <= Speed * Speed

\* mutant: only the first 2 segments are skipped
checkSelfCollision_SkipTwo ==
    IF ~isInitialized \/ ~HasHead(body) THEN FALSE
    ELSE selfCollisionFrom(body, SkipCount)

checkSelfCollision ==
    IF ~isInitialized \/ ~HasHead(body) THEN FALSE
    ELSE selfCollisionFrom(body, SkipCount + 1)

\* checkWallCollision(gridSize): the hitWall expression
hitWall(pos, gridSize) ==
    LET halfGrid == gridSize \div 2
    IN \/ pos[1] <= -halfGrid + WallMargin
       \/ pos[1] >= halfGrid - WallMargin
       \/ pos[2] <= -WallMargin
       \/ pos[2] >= gridSize - WallMargin
       \/ pos[3] <= -halfGrid + WallMargin
       \/ pos[3] >= halfGrid - WallMargin

checkWallCollision(gridSize) ==
    IF ~isInitialized \/ ~HasHead(body) THEN FALSE
    ELSE hitWall(body[1], gridSize)

----------------------------------------------------------------------------
(* Game: the loop and the handlers of main.js *)

\* the time between two animation frames, in microseconds
FrameTimes == {60000}

\* Game.update: this.moveTimer >= this.moveDelay
stepDue(timer, delay) == timer >= delay

\* the accumulator keeps the time beyond moveDelay
moveTimerAfterStep_Decrement(timer, delay) == timer - delay

\* Game.update: this.moveTimer = 0 after a step
moveTimerAfterStep(timer, delay) == 0

\* the speed-up without its floor
nextMoveDelay_NoFloor(delay) == (delay * SpeedUpPercent) \div 100

\* checkFoodCollision: Math.max(0.03, this.moveDelay * 0.95)
nextMoveDelay(delay) == Max(MinMoveDelay, (delay * SpeedUpPercent) \div 100)

\* the food is reached only within a third of the radius
foodHit_ThirdRadius(b, fpos) ==
    /\ HasHead(b)
    /\ 9 * DistSq(b[1], fpos) < EatRadius * EatRadius

\* checkFoodCollision: the guard and the distance test, on the moved body
foodHit(b, fpos) ==
    /\ HasHead(b)
    /\ DistSq(b[1], fpos) < EatRadius * EatRadius

\* Snake.update() as Game.update calls it: the snake's fields afterwards
updateResult ==
    IF ~isInitialized \/ ~HasHead(body)
    THEN [body |-> body, direction |-> direction,
          growPending |-> growPending, moved |-> FALSE]
    ELSE [body |-> handleGrowth(moveBody(body, nextDirection), nextDirection,
                                growPending, bodyMaterial),
          direction |-> nextDirection,
          growPending |-> growPendingAfterUpdate(growPending),
          moved |-> TRUE]

\* only a self-collision ends the game
collided_SelfOnly(selfHit, wallHit) == selfHit

\* Game.update: checkSelfCollision() || checkWallCollision(gridSize)
collided(selfHit, wallHit) == selfHit \/ wallHit

\* Game.update: the calls of one simulation step, in the order made
stepCalls(selfHit, wallHit) ==
    <<"snake.update", "checkFoodCollision", "checkSelfCollision">>
    \o (IF selfHit THEN << >> ELSE <<"checkWallCollision">>)
    \o (IF collided(selfHit, wallHit) THEN <<"endGame">> ELSE << >>)

\* Game.update: the simulation step
SimulationStep(timer) ==
    LET u == updateResult
    IN /\ u.moved => ticks < MaxGameTicks
       /\ body' = u.body
       /\ direction' = u.direction
       /\ ticks' = IF u.moved THEN ticks + 1 ELSE ticks
       /\ moveTimer' = moveTimerAfterStep(timer, moveDelay)
       /\ UNCHANGED <<nextDirection, isInitialized, headMaterial,
                      bodyMaterial, loadState, paused>>
       /\ IF foodHit(u.body, foodPos)
          THEN /\ growPending' = growResult(u.growPending)
               /\ \E f \in respawn([pos |-> foodPos, last |-> foodLast,
                                     log |-> respawnLog], TRUE, GridSize) :
                     /\ foodPos' = f.pos
                     /\ foodLast' = f.last
                     /\ respawnLog' = f.log
               /\ score' = score + ScoreStep
               /\ moveDelay' = nextMoveDelay(moveDelay)
          ELSE /\ growPending' = u.growPending
               /\ UNCHANGED <<foodVars, score, moveDelay>>
       /\ LET selfHit == checkSelfCollision'
              wallHit == checkWallCollision(GridSize)'
          IN /\ gameOver' = (gameOver \/ collided(selfHit, wallHit))
             /\ lastCall' = [op |-> "frame", arg |-> stepCalls(selfHit, wallHit)]

\* animate(): one frame, dt after the previous one; Game.update()
Frame(dt) ==
    /\ UNCHANGED sceneVars
    /\ IF paused \/ gameOver
       THEN /\ clock.running => clock.elapsed < MaxIdleFrames * dt
            /\ clock' = IF clock.running
                        THEN [clock EXCEPT !.elapsed = @ + dt] ELSE clock
            /\ lastCall' = [op |-> "frame", arg |-> << >>]
            /\ UNCHANGED <<body, direction, nextDirection, growPending,
                           isInitialized, headMaterial, bodyMaterial,
                           loadState, ticks>>
            /\ UNCHANGED <<foodVars, score, gameOver, paused, moveDelay,
                           moveTimer>>
       ELSE LET delta == IF clock.running THEN clock.elapsed + dt ELSE 0
                timer == moveTimer + delta
            IN /\ clock' = [running |-> TRUE, elapsed |-> 0]
               /\ IF stepDue(timer, moveDelay)
                  THEN SimulationStep(timer)
                  ELSE /\ moveTimer' = timer
                       /\ lastCall' = [op |-> "frame", arg |-> << >>]
                       /\ UNCHANGED <<body, direction, nextDirection,
                                      growPending, isInitialized,
                                      headMaterial, bodyMaterial, loadState,
                                      ticks>>
                       /\ UNCHANGED <<foodVars, score, gameOver, paused,
                                      moveDelay>>

\* pausing without resuming
togglePause_OnlyPauses ==
    /\ paused' = TRUE
    /\ UNCHANGED <<body, direction, nextDirection, growPending,
                   isInitialized, headMaterial, bodyMaterial, loadState,
                   ticks>>
    /\ UNCHANGED <<foodVars, score, gameOver, moveDelay, moveTimer, clock>>
    /\ UNCHANGED sceneVars

\* togglePause()
togglePause ==
    /\ paused' = ~paused
    /\ UNCHANGED <<body, direction, nextDirection, growPending,
                   isInitialized, headMaterial, bodyMaterial, loadState,
                   ticks>>
    /\ UNCHANGED <<foodVars, score, gameOver, moveDelay, moveTimer, clock>>
    /\ UNCHANGED sceneVars

\* startGame(): a snake that is still loading has no meshes to remove and
\* its load stays pending when the snake is replaced
staleLoadsAfterStart(load, stale) ==
    IF load = "pending" THEN stale + 1 ELSE stale

\* createHead() of a discarded snake: this.scene.add(this.head)
strayHeadsAfterSettle(heads) == heads + 1

\* the restart keeps the speed reached
startGame_KeepsSpeed ==
    /\ score' = 0
    /\ gameOver' = FALSE
    /\ paused' = FALSE
    /\ body' = << >>
    /\ direction' = InitialDirection
    /\ nextDirection' = InitialDirection
    /\ growPending' = 0
    /\ isInitialized' = FALSE
    /\ headMaterial' = "null"
    /\ bodyMaterial' = "null"
    /\ loadState' = "pending"
    /\ ticks' = 0
    /\ foodPos' = NewFood.pos
    /\ foodLast' = NewFood.last
    /\ respawnLog' = NewFood.log
    /\ loadState = "pending" => staleLoads + strayHeads < MaxStale
    /\ staleLoads' = staleLoadsAfterStart(loadState, staleLoads)
    /\ UNCHANGED <<moveTimer, clock, strayHeads, moveDelay>>

\* startGame(): the state is reset, the Snake and the Food are new objects
startGame ==
    /\ score' = 0
    /\ gameOver' = FALSE
    /\ paused' = FALSE
    /\ moveDelay' = BaseSpeed
    /\ body' = << >>
    /\ direction' = InitialDirection
    /\ nextDirection' = InitialDirection
    /\ growPending' = 0
    /\ isInitialized' = FALSE
    /\ headMaterial' = "null"
    /\ bodyMaterial' = "null"
    /\ loadState' = "pending"
    /\ ticks' = 0
    /\ foodPos' = NewFood.pos
    /\ foodLast' = NewFood.last
    /\ respawnLog' = NewFood.log
    /\ loadState = "pending" => staleLoads + strayHeads < MaxStale
    /\ staleLoads' = staleLoadsAfterStart(loadState, staleLoads)
    /\ UNCHANGED <<moveTimer, clock, strayHeads>>

\* the texture load of a discarded snake settles, by onLoad or by onError:
\* its initializeSnake() goes on to createHead() and createBodyParts(3),
\* which add their meshes to the scene
StaleTextureSettled ==
    /\ staleLoads > 0
    /\ staleLoads' = staleLoads - 1
    /\ strayHeads' = strayHeadsAfterSettle(strayHeads)
    /\ lastCall' = [op |-> "staleLoad", arg |-> NoArg]
    /\ UNCHANGED <<snakeVars, gameVars, foodVars>>

\* the direction keys pressed in the game: KeyQ and KeyA/ArrowLeft, by the
\* vector each passes
PressedKeys == { <<0, -Scale, 0>>, <<-Scale, 0, 0>> }

\* keydown of a direction key, d the vector it passes
KeyDirection(d) ==
    /\ lastCall' = [op |-> "keyDirection", arg |-> NoArg]
    /\ nextDirection' = IF gameOver THEN nextDirection
                                    ELSE changeDirectionResult(d)
    /\ UNCHANGED <<body, direction, growPending, isInitialized,
                   headMaterial, bodyMaterial, loadState, ticks>>
    /\ UNCHANGED <<gameVars, foodVars, sceneVars>>

\* keydown of Space
KeySpace ==
    /\ lastCall' = [op |-> "keySpace", arg |-> NoArg]
    /\ IF gameOver
       THEN /\ UNCHANGED <<body, direction, nextDirection, growPending,
                           isInitialized, headMaterial, bodyMaterial,
                           loadState, ticks>>
            /\ UNCHANGED <<gameVars, foodVars, sceneVars>>
       ELSE togglePause

\* keydown of KeyR
KeyR ==
    /\ lastCall' = [op |-> "keyR", arg |-> NoArg]
    /\ startGame

\* click on #restart
RestartClick ==
    /\ lastCall' = [op |-> "restartClick", arg |-> NoArg]
    /\ startGame

\* click on #resume
ResumeClick ==
    /\ lastCall' = [op |-> "resumeClick", arg |-> NoArg]
    /\ togglePause

\* the mobile button clicked in the game: leftBtn, by the vector it passes
MobileRequests == { <<-Scale, 0, 0>> }

\* click on a mobile direction button
MobileButton(d) ==
    /\ lastCall' = [op |-> "mobileButton", arg |-> NoArg]
    /\ nextDirection' = changeDirectionResult(d)
    /\ UNCHANGED <<body, direction, growPending, isInitialized,
                   headMaterial, bodyMaterial, loadState, ticks>>
    /\ UNCHANGED <<gameVars, foodVars, sceneVars>>

\* the food is eaten: the branch of checkFoodCollision taken when the head
\* is within 1.5 of the food, wherever the food is
FoodEaten ==
    /\ HasHead(body)
    /\ score < MaxFoods * ScoreStep
    /\ lastCall' = [op |-> "foodEaten", arg |-> NoArg]
    /\ growPending' = growResult(growPending)
    /\ \E f \in respawn([pos |-> foodPos, last |-> foodLast,
                          log |-> respawnLog], TRUE, GridSize) :
          /\ foodPos' = f.pos
          /\ foodLast' = f.last
          /\ respawnLog' = f.log
    /\ score' = score + ScoreStep
    /\ moveDelay' = nextMoveDelay(moveDelay)
    /\ UNCHANGED <<body, direction, nextDirection, isInitialized,
                   headMaterial, bodyMaterial, loadState, ticks>>
    /\ UNCHANGED <<gameOver, paused, moveTimer, clock>>
    /\ UNCHANGED sceneVars

----------------------------------------------------------------------------
(* Specifications *)

\* the snake driven with the requests the game's handlers issue
Next ==
    \/ TextureLoaded
    \/ TextureFailed
    \/ \E d \in KeyRequests : ChangeDirection(d)
    \/ Update
    \/ Grow

Spec == Init /\ [][Next]_vars

\* the snake driven through its exported methods with any Vector3 argument
NextApi ==
    \/ TextureLoaded
    \/ TextureFailed
    \/ \E d \in KeyRequests \cup OtherRequests : ChangeDirection(d)
    \/ (ticks < MaxApiTicks /\ Update)
    \/ Grow

SpecApi == Init /\ [][NextApi]_vars

\* the game: frames, keys, buttons and the texture load
NextGame ==
    \/ TextureLoaded
    \/ TextureFailed
    \/ \E dt \in FrameTimes : Frame(dt)
    \/ \E d \in PressedKeys : KeyDirection(d)
    \/ KeySpace
    \/ KeyR
    \/ RestartClick
    \/ ResumeClick
    \/ \E d \in MobileRequests : MobileButton(d)

SpecGame == Init /\ [][NextGame]_vars

\* the scene over restarts and texture loads, with the frames of a snake
\* that is not steered
NextScene ==
    \/ TextureLoaded
    \/ TextureFailed
    \/ StaleTextureSettled
    \/ \E dt \in FrameTimes : Frame(dt)
    \/ KeyR
    \/ RestartClick

SpecScene == Init /\ [][NextScene]_vars

\* the food and the speed over a run of eaten foods and restarts; the
\* snake's way to the food is left out
NextFood ==
    \/ TextureLoaded
    \/ FoodEaten
    \/ RestartClick

SpecFood == Init /\ [][NextFood]_vars

----------------------------------------------------------------------------
(* Properties of the Snake state machine *)

\* the request of the call that led to the next state was accepted by
\* the reversal test against the direction committed before it
Accepted(d) == Dot(d, direction) >= -(ReversalThreshold * Scale)

\* the head of b displaced by 1.5 times the unit vector dir
HeadAfter(b, dir) ==
    <<b[1][1] + (3 * dir[1]) \div 2, b[1][2] + (3 * dir[2]) \div 2,
      b[1][3] + (3 * dir[3]) \div 2>>

\* the segments that exist before an update follow by one position
ShiftByOne ==
    /\ Len(body') >= Len(body)
    /\ \A i \in 2..Len(body) : body'[i] = body[i - 1]

\* C1: for every axis-aligned unit vector d with dot(d, direction) >= -0.8,
\* changeDirection(d) on an initialized snake leaves direction (and the
\* segments) unchanged and stores d as the pending direction; an update()
\* that follows the call commits it: direction = d.
C1_AcceptedRequestCommittedOnUpdate ==
    [][ /\ \A d \in AxisDirections :
              ( /\ isInitialized
                /\ lastCall'.op = "changeDirection"
                /\ lastCall'.arg = d
                /\ Accepted(d) )
              => ( /\ direction' = direction
                   /\ body' = body
                   /\ nextDirection' = d )
        /\ ( /\ isInitialized
             /\ lastCall.op = "changeDirection"
             /\ lastCall.arg \in AxisDirections
             /\ Accepted(lastCall.arg)
             /\ lastCall'.op = "update" )
           => direction' = lastCall.arg ]_vars

\* C1 witness: an update has just committed a turn requested right before it
C1_Witness ==
    /\ lastCall.op = "update"
    /\ ticks >= 2
    /\ direction = <<0, -Scale, 0>>
    /\ nextDirection = direction
    /\ DistSq(body[1], body[2]) = Speed * Speed
    /\ body[1][2] < body[2][2]

\* C2: for every request d with dot(d, direction) < -0.8, changeDirection(d)
\* changes nothing of the snake: the pending direction is as before, and an
\* update() that follows commits that earlier pending direction.
C2_RejectedRequestIsNoOp ==
    [][ /\ ( /\ lastCall'.op = "changeDirection"
             /\ ~Accepted(lastCall'.arg) )
           => ( /\ nextDirection' = nextDirection
                /\ direction' = direction
                /\ body' = body
                /\ growPending' = growPending
                /\ isInitialized' = isInitialized )
        /\ ( /\ isInitialized
             /\ lastCall.op = "changeDirection"
             /\ ~Accepted(lastCall.arg)
             /\ lastCall'.op = "update" )
           => direction' = nextDirection ]_vars

\* C2 witness: a reversal was just requested while a turn was pending, and
\* the pending turn is still there
C2_Witness ==
    /\ isInitialized
    /\ lastCall.op = "changeDirection"
    /\ lastCall.arg = VNeg(direction)
    /\ nextDirection # direction
    /\ nextDirection # lastCall.arg

\* C3: the pending direction is never the exact inverse of direction, and
\* the directions committed by two consecutive update() calls are never
\* opposite, whatever changeDirection calls arrive between the two ticks.
C3_NoReversal ==
    /\ [](nextDirection # VNeg(direction))
    /\ [][direction' # VNeg(direction)]_vars

\* C3 witness: after a committed turn, a further turn is pending following
\* a request made between two ticks
C3_Witness ==
    /\ isInitialized
    /\ ticks >= 2
    /\ direction = <<0, 0, Scale>>
    /\ nextDirection = <<-Scale, 0, 0>>
    /\ lastCall.op = "changeDirection"
    /\ lastCall.arg = <<0, 0, -Scale>>

\* C4: direction and the pending direction are always among the 6
\* axis-aligned unit vectors, because changeDirection does not store a
\* request that is not one of them after normalization.
C4_DirectionAxisAligned ==
    /\ direction \in AxisDirections
    /\ nextDirection \in AxisDirections

\* C5: update() on an initialized snake moves the head by 1.5 units along
\* the committed direction and puts every segment i >= 1 where segment
\* i-1 was before the update.
C5_UpdateMovesHeadAndShifts ==
    [][ ( /\ isInitialized
          /\ lastCall'.op = "update" )
        => ( /\ direction' = nextDirection
             /\ body'[1] = HeadAfter(body, direction')
             /\ DistSq(body'[1], body[1]) = Speed * Speed
             /\ ShiftByOne ) ]_vars

\* C5 witness: two updates in different directions have moved the chain
C5_Witness ==
    /\ lastCall.op = "update"
    /\ ticks = 2
    /\ Len(body) = InitialBodyParts + 1
    /\ body[1] = <<Speed, 5 * Scale, Speed>>
    /\ body[2] = <<Speed, 5 * Scale, 0>>
    /\ body[3] = SpawnPoint

\* C6: grow() only increments the growth queue by 1 and changes no
\* segment; the next update() appends exactly one segment and decrements
\* the queue by 1 while the existing segments follow by one position; an
\* update() with an empty queue appends nothing.
C6_GrowthIsDeferredToUpdate ==
    [][ /\ ( /\ isInitialized
             /\ lastCall'.op = "grow" )
           => ( /\ growPending' = growPending + 1
                /\ body' = body
                /\ direction' = direction
                /\ nextDirection' = nextDirection )
        /\ ( /\ isInitialized
             /\ lastCall'.op = "update"
             /\ growPending > 0 )
           => ( /\ Len(body') = Len(body) + 1
                /\ growPending' = growPending - 1
                /\ ShiftByOne )
        /\ ( /\ isInitialized
             /\ lastCall'.op = "update"
             /\ growPending = 0 )
           => ( /\ Len(body') = Len(body)
                /\ growPending' = 0 ) ]_vars

\* C6 witness: an update has just consumed a pending growth
C6_Witness ==
    /\ lastCall.op = "update"
    /\ Len(body) = InitialBodyParts + 2
    /\ growPending = 0

\* C7: when update() consumes a pending growth, the new last segment lies
\* at the moved tail displaced by 1.2 along the direction from the
\* second-to-last segment to the tail, farther from the second-to-last
\* segment than the tail is.
C7_NewSegmentBehindTail ==
    [][ ( /\ isInitialized
          /\ lastCall'.op = "update"
          /\ growPending > 0
          /\ Len(body') = Len(body) + 1 )
        => LET n == Len(body)
               tail == body'[n]
               secondLast == body'[n - 1]
               new == body'[n + 1]
           IN /\ DistSq(new, tail) = Spacing * Spacing
              /\ DistSq(new, secondLast) > DistSq(tail, secondLast) ]_vars

\* C8: a newly initialized snake is the head at (0, 5, 0) and 3 body
\* segments in a straight line behind it, segment i at 1.2 * i units from
\* the head opposite to +X, all four positions distinct.
C8_InitialLayoutStraight ==
    (isInitialized /\ ticks = 0)
    => body = << SpawnPoint,
                 <<-Spacing, 5 * Scale, 0>>,
                 <<-2 * Spacing, 5 * Scale, 0>>,
                 <<-3 * Spacing, 5 * Scale, 0>> >>

\* C9: the snake has at least one segment in every state from the return
\* of its constructor on.
C9_HeadAlwaysPresent == Len(body) >= 1

\* C10: checkSelfCollision() is true exactly when some segment of index
\* >= 3 (0-based) lies closer than 0.8 to the head.
C10_SelfCollisionIffFarSegmentNear ==
    checkSelfCollision
    <=> \E i \in 1..Len(body) :
            /\ i - 1 >= 3
            /\ DistSq(body[1], body[i]) < 80 * 80

\* C10 witness: a snake of length 5 whose head is within 0.8 of segment
\* index 4 and of no other segment, reported as a collision
C10_Witness ==
    /\ Len(body) = 5
    /\ DistSq(body[1], body[5]) < 80 * 80
    /\ \A i \in 2..4 : DistSq(body[1], body[i]) >= 80 * 80
    /\ checkSelfCollision

\* C11: checkWallCollision(gridSize) is true exactly when the head is within
\* 0.6 of one of the six bounding planes of the arena: x = +-15, z = +-15,
\* the floor y = 0 and the ceiling y = 30.
C11_WallCollisionIffWithinMargin ==
    (isInitialized /\ HasHead(body))
    => (checkWallCollision(3000)
        <=> \/ body[1][1] <= -1500 + 60
            \/ body[1][1] >= 1500 - 60
            \/ body[1][2] <= 60
            \/ body[1][2] >= 3000 - 60
            \/ body[1][3] <= -1500 + 60
            \/ body[1][3] >= 1500 - 60)

\* C12: after every respawn the committed food position lies inside
\* [-12, 12] x [3, 27] x [-12, 12], whatever zone or fallback produced it.
C12_RespawnInsideBounds ==
    respawnLog # NoLog
    => /\ foodPos[1] >= -1200 /\ foodPos[1] <= 1200
       /\ foodPos[2] >= 300 /\ foodPos[2] <= 2700
       /\ foodPos[3] >= -1200 /\ foodPos[3] <= 1200

\* C13: a position committed from a zone generator (not the fallback) is at
\* least 4 away from the position the food held just before that respawn,
\* the first respawn after construction included.
C13_ZonePositionFarFromPrevious ==
    [][ (lastCall'.op = "foodEaten" /\ score' = score + 10
         /\ ~respawnLog'.fallback)
        => DistSq(foodPos', foodPos) >= 400 * 400 ]_vars

\* C14: the fallback position is committed only after the zone candidates
\* were each rejected as too close; a candidate that is not too close is
\* committed and never given up for the fallback.
C14_FallbackOnlyAfterAllRejected ==
    respawnLog.fallback => ~respawnLog.discardedFar

\* the simulation step the frame just taken has run, if any
StepRan == lastCall.op = "frame" /\ Len(lastCall.arg) > 0

\* how often a call occurs in the calls of a simulation step
Calls(name, calls) == Cardinality({ i \in 1..Len(calls) : calls[i] = name })

\* C15: in a frame of a game neither paused nor over, a simulation step runs
\* exactly when moveTimer plus the frame's delta reaches moveDelay; it runs
\* once and moveTimer is reset to 0, otherwise moveTimer keeps the sum and
\* the snake does not move.
C15_OneStepWhenTimerReachesDelay ==
    [][ (lastCall'.op = "frame" /\ ~paused /\ ~gameOver)
        => \E dt \in FrameTimes :
             LET delta == IF clock.running THEN clock.elapsed + dt ELSE 0
             IN IF moveTimer + delta >= moveDelay
                THEN /\ StepRan'
                     /\ Calls("snake.update", lastCall'.arg) = 1
                     /\ ticks' = IF isInitialized THEN ticks + 1 ELSE ticks
                     /\ moveTimer' = 0
                ELSE /\ ~StepRan'
                     /\ moveTimer' = moveTimer + delta
                     /\ UNCHANGED <<body, direction, ticks>> ]_vars

\* C15 witness: the second step of a game has just run and the accumulator
\* is back at 0
C15_Witness ==
    /\ StepRan
    /\ ticks = 2
    /\ moveTimer = 0
    /\ ~gameOver

\* C16: on a step after whose update the head is closer than 1.5 to the
\* food, the growth queue gains 1, the food is respawned, the score gains
\* 10 and moveDelay becomes max(0.03, 0.95 * moveDelay); on any other step
\* none of the four changes.
C16_FoodHitEffects ==
    [][ StepRan'
        => LET queue == IF isInitialized /\ growPending > 0
                        THEN growPending - 1 ELSE growPending
           IN IF HasHead(body') /\ DistSq(body'[1], foodPos) < 150 * 150
              THEN /\ growPending' = queue + 1
                   /\ foodPos' # foodPos
                   /\ foodLast' = <<foodPos'>>
                   /\ score' = score + 10
                   /\ moveDelay'
                        = IF (95 * moveDelay) \div 100 > 30000
                          THEN (95 * moveDelay) \div 100 ELSE 30000
              ELSE /\ growPending' = queue
                   /\ UNCHANGED <<foodPos, foodLast, score, moveDelay>> ]_vars

\* C16 witness: the first food was eaten and the update after it added the
\* fifth segment
C16_Witness ==
    /\ score = 10
    /\ moveDelay = 95000
    /\ Len(body) = 5
    /\ growPending = 0
    /\ foodPos # <<0, 0, 0>>

\* C17: moveDelay stays within [0.03, 0.1]; except on a restart it never
\* increases, and once at 0.03 it stays there however many foods follow.
C17_MoveDelayBounded ==
    /\ [](moveDelay >= 30000 /\ moveDelay <= 100000)
    /\ [][ lastCall'.op \notin {"keyR", "restartClick"}
           => /\ moveDelay' <= moveDelay
              /\ moveDelay = 30000 => moveDelay' = 30000 ]_vars

\* C17 witness: a food eaten after the 24 that bring moveDelay to the floor
C17_Witness ==
    /\ moveDelay = 30000
    /\ score = 250
    /\ lastCall.op = "foodEaten"

\* C18: a step after which checkSelfCollision() or checkWallCollision()
\* holds sets gameOver; while gameOver holds a frame changes neither the
\* segments, the direction, the score, moveDelay nor the food; and gameOver
\* becomes false again only by startGame().
C18_CollisionEndsGame ==
    [][ /\ (StepRan' /\ (checkSelfCollision' \/ checkWallCollision(3000)'))
           => gameOver'
        /\ (gameOver /\ lastCall'.op = "frame")
           => /\ ~StepRan'
              /\ UNCHANGED <<body, direction, growPending, ticks, score,
                             moveDelay, foodPos>>
        /\ (gameOver /\ ~gameOver')
           => /\ lastCall'.op \in {"keyR", "restartClick"}
              /\ score' = 0
              /\ body' = << >> ]_vars

\* C18 witness: the head went through the floor, the game is over and a
\* frame has passed since
C18_Witness ==
    /\ gameOver
    /\ checkWallCollision(3000)
    /\ lastCall.op = "frame"
    /\ ~StepRan

\* C19: within a step the controller checks self- and wall-collision
\* before it handles a food hit.
C19_CollisionCheckedBeforeFood ==
    StepRan
    => \A i, j \in 1..Len(lastCall.arg) :
          (lastCall.arg[i] = "checkSelfCollision"
           /\ lastCall.arg[j] = "checkFoodCollision") => i < j

\* C20: a frame of a paused game leaves the segments, the direction, the
\* growth queue, the score, moveDelay, the food position and gameOver
\* unchanged; togglePause() flips paused and changes nothing else of the
\* simulation or the session.
C20_PausedFramesDoNothing ==
    [][ /\ (paused /\ lastCall'.op = "frame")
           => /\ ~StepRan'
              /\ UNCHANGED <<body, direction, growPending, ticks, score,
                             moveDelay, foodPos, gameOver>>
        /\ (lastCall'.op = "resumeClick"
            \/ (lastCall'.op = "keySpace" /\ ~gameOver))
           => /\ paused' = ~paused
              /\ UNCHANGED <<body, direction, nextDirection, growPending,
                             ticks, score, gameOver, moveDelay, moveTimer,
                             foodPos, foodLast>> ]_vars

\* C20 witness: the game was paused after its first step, a frame has
\* passed since and the game is still paused
C20_Witness ==
    /\ paused
    /\ ticks = 1
    /\ lastCall.op = "frame"
    /\ clock.elapsed > 0

\* C21: startGame(), from whatever state, sets score to 0, gameOver and
\* paused to false and moveDelay to 0.1, and puts a new snake (no segment
\* of the old one, direction +X, empty growth queue) and a new food (no
\* remembered spawn position) in place of the old ones.
C21_RestartResetsEverything ==
    [][ lastCall'.op \in {"keyR", "restartClick"}
        => /\ score' = 0
           /\ ~gameOver'
           /\ ~paused'
           /\ moveDelay' = 100000
           /\ body' = << >>
           /\ ~isInitialized'
           /\ direction' = <<100, 0, 0>>
           /\ nextDirection' = <<100, 0, 0>>
           /\ growPending' = 0
           /\ foodLast' = << >> ]_vars

\* C21 witness: a restart of a game that was paused or over while frames
\* went by
C21_Witness ==
    /\ lastCall.op \in {"keyR", "restartClick"}
    /\ clock.elapsed > 0
    /\ score = 0
    /\ moveDelay = 100000
    /\ body = << >>

\* C22: a failed texture load leaves the snake initialized with fallback
\* materials and with the head and 3 body segments laid out as after a
\* successful load, and ends no game; from then on a step moves the snake,
\* a direction input is stored or refused, and collisions end the game as
\* they do for a snake whose textures loaded.
C22_FailedLoadRecovered ==
    [][ /\ lastCall'.op = "onError"
           => /\ isInitialized'
              /\ headMaterial' = "fallback"
              /\ bodyMaterial' = "fallback"
              /\ Len(body') = 4
              /\ body' = createBodyParts(createHead(<< >>, "textured"), 3,
                                         <<100, 0, 0>>, "textured")
              /\ UNCHANGED <<gameOver, score, paused>>
        /\ (headMaterial = "fallback" /\ StepRan')
           => /\ body' = handleGrowth(moveBody(body, nextDirection),
                                      nextDirection, growPending, "textured")
              /\ direction' = nextDirection
              /\ ticks' = ticks + 1
              /\ gameOver' = (checkSelfCollision' \/ checkWallCollision(3000)')
        /\ (headMaterial = "fallback" /\ ~gameOver
            /\ lastCall'.op \in {"keyDirection", "mobileButton"})
           => \/ nextDirection' = nextDirection
              \/ /\ nextDirection' \in AxisDirections
                 /\ Dot(nextDirection', direction) >= 0 ]_vars

\* C22 witness: a snake with fallback materials has turned, eaten the
\* first food and grown, and the game goes on
C22_Witness ==
    /\ headMaterial = "fallback"
    /\ score = 10
    /\ Len(body) = 5
    /\ ~gameOver

\* C23: the simulation runs while the snake's texture load is unresolved:
\* a simulation step taken then advances a head that exists.
C23_SimulationRunsWithoutAssets ==
    [][ (StepRan' /\ loadState = "pending")
        => (HasHead(body') /\ ticks' = ticks + 1) ]_vars

\* C24: while a Food has made no respawn since its construction, its
\* position is a spawned one inside the spawn bounds of its grid of 20, not
\* the origin, and lastSpawnPosition holds it.
C24_ConstructorSpawnsFood ==
    respawnLog = NoLog
    => /\ foodPos # <<0, 0, 0>>
       /\ foodPos[1] >= -700 /\ foodPos[1] <= 700
       /\ foodPos[2] >= 300 /\ foodPos[2] <= 1700
       /\ foodPos[3] >= -700 /\ foodPos[3] <= 700
       /\ foodLast = <<foodPos>>

\* C25: for an initialized snake in the game loop the growth queue is 0 or
\* 1 and the number of segments is 4 + score / 10 - growPending; except on
\* a restart the number of segments never decreases.
C25_LengthFollowsScore ==
    /\ [](isInitialized
          => /\ growPending \in {0, 1}
             /\ Len(body) = 4 + score \div 10 - growPending)
    /\ [][ lastCall'.op \notin {"keyR", "restartClick"}
           => Len(body') >= Len(body) ]_vars

\* C25 witness: the first food was just eaten, the segment it adds is
\* still queued
C25_Witness ==
    /\ isInitialized
    /\ score = 10
    /\ growPending = 1
    /\ Len(body) = 4
    /\ StepRan

\* C26: a snake of 4 segments never registers a self-collision, whatever
\* accepted axis-aligned turns and updates it has made since its creation,
\* the first updates that shift the initial layout through included.
C26_NoSelfCollisionBeforeGrowth ==
    (isInitialized /\ Len(body) = 4) => ~checkSelfCollision

\* C26 witness: a snake of 4 segments has gone round the smallest loop,
\* its head is back on the spawn point after 4 updates, and no collision
\* is registered
C26_Witness ==
    /\ isInitialized
    /\ Len(body) = 4
    /\ ticks = 4
    /\ body[1] = <<0, 500, 0>>
    /\ lastCall.op = "update"
    /\ ~checkSelfCollision

\* C27: a snake discarded by startGame() while its texture load was
\* pending adds nothing to the scene when that load resolves: the scene
\* holds segment meshes of the current snake only, so at most one head.
C27_NoStraySegments ==
    /\ strayHeads = 0
    /\ (IF HasHead(body) THEN 1 ELSE 0) + strayHeads <= 1

\* C28: time that passes while the game is paused does not count: the
\* first frame after unpausing runs a simulation step only if the
\* moveTimer held at the pause plus that frame's own time reaches
\* moveDelay.
C28_PausedTimeNotCounted ==
    [][ (/\ lastCall.op \in {"keySpace", "resumeClick"}
         /\ ~paused
         /\ ~gameOver
         /\ lastCall'.op = "frame"
         /\ StepRan')
        => \E dt \in FrameTimes : moveTimer + dt >= moveDelay ]_vars

\* C29: while gameOver holds, a direction key, Space, a mobile direction
\* button or the resume button changes neither paused, the pending
\* direction, the direction, the segments nor the score.
C29_OnlyRestartActsWhenOver ==
    [][ (gameOver /\ lastCall'.op \in {"keyDirection", "keySpace",
                                       "mobileButton", "resumeClick"})
        => UNCHANGED <<paused, nextDirection, direction, body, score>> ]_vars

====
